---- MODULE Spec2Model ----
(***************************************************************************)
(* A model of package tplutil: the whitespace stripper Strip, the template *)
(* function `last`, ExecuteToString, ParseGlob (src/util.go) and           *)
(* SparseTemplate / Template.Execute (the variant of the package that      *)
(* wraps text/template's Template).                                        *)
(*                                                                         *)
(* Strings are sequences of characters.  text/template itself is not part  *)
(* of the package: its Parse and Execute are modelled by their outcome     *)
(* (what is written to the buffer, which error comes back).                *)
(***************************************************************************)
EXTENDS Integers, Sequences, FiniteSets, TLC

VARIABLES
    pc,         \* position of the caller in the scenario being run
    text,       \* Strip: the argument
    out,        \* Strip: Strip(text)
    out2,       \* Strip: Strip(Strip(text))
    x,          \* last: the index argument
    a,          \* last: the second argument (a reflected value)
    lastRet,    \* last: what the call ended in
    nodes,      \* execution: the parsed template, a sequence of nodes
    v,          \* execution: the data object
    execRet,    \* execution: what the call ended in
    name,       \* SparseTemplate: the name argument
    sparse,     \* SparseTemplate: the text argument
    built,      \* SparseTemplate: what the call ended in
    pattern,    \* ParseGlob: the pattern argument
    globErr,    \* ParseGlob: filepath.Glob reports a malformed pattern
    filenames,  \* ParseGlob: the files filepath.Glob matched, in its order
    entry,      \* ParseGlob: the tpl argument and its set as the call began
    tpl,        \* ParseGlob: the local variable tpl
    set,        \* ParseGlob: the template set tpl belongs to (name -> body)
    i,          \* ParseGlob: the file the range loop is at
    readLog,    \* ParseGlob: the files ioutil.ReadFile was called on
    parseLog,   \* ParseGlob: the files Parse was called on
    globRet     \* ParseGlob: what the call returned

stripVars  == <<text, out, out2>>
lastVars   == <<x, a, lastRet>>
execVars   == <<nodes, v, execRet>>
sparseVars == <<name, sparse, built>>
globVars   == <<pattern, globErr, filenames, entry, tpl, set, i, readLog,
                parseLog, globRet>>
vars       == <<pc, stripVars, lastVars, execVars, sparseVars, globVars>>

NIL == "nil"

(***************************************************************************)
(* Bounds of the model.                                                    *)
(***************************************************************************)
MaxLen    == 4    \* longest text given to Strip
MaxSeqLen == 3    \* longest container given to last
MaxNodes  == 3    \* most nodes in an executed template
MaxSparse == 2    \* longest text given to SparseTemplate
MaxFiles  == 3    \* most files a pattern matches

(***************************************************************************)
(* Characters.  LF, SP, TAB and CR are the members of the regexp class \s  *)
(* the model keeps (form feed behaves as CR does); X is any character      *)
(* outside \s.                                                             *)
(***************************************************************************)
LF  == "LF"
SP  == "SP"
TAB == "TAB"
CR  == "CR"
X   == "x"

Chars == {LF, SP, TAB, CR, X}

RECURSIVE StringsUpTo(_, _)
StringsUpTo(alphabet, n) ==
    IF n = 0 THEN {<<>>}
    ELSE LET shorter == StringsUpTo(alphabet, n - 1)
         IN  shorter \cup {Append(s, c) : s \in shorter, c \in alphabet}

(***************************************************************************)
(* reInsignificantWhitespace = (?m)\n?^\s*                                 *)
(***************************************************************************)
\* A plausible slip: the class written without the tab.
IsSpaceNoTab(c) == c \in {SP, LF, CR}

\* \s: the class [\t\n\f\r ].
IsSpace(c) == c \in {SP, TAB, LF, CR}

\* (?m)^ at position p (the character at p is the next one to be read):
\* the beginning of the text, or just after a line feed.
BeginLine(s, p) == p = 1 \/ s[p - 1] = LF

\* A plausible slip: \s? or \s in place of \s*.
SpaceRunEndOnce(s, p) ==
    IF p <= Len(s) /\ IsSpace(s[p]) THEN p + 1 ELSE p

\* \s* from position p, greedy: the position after the run.
RECURSIVE SpaceRunEnd(_, _)
SpaceRunEnd(s, p) ==
    IF p <= Len(s) /\ IsSpace(s[p]) THEN SpaceRunEnd(s, p + 1) ELSE p

\* A plausible slip: the (?m) flag left out, so ^ is the start of the text.
MatchEndNoMultiline(s, p) ==
    IF p = 1 THEN SpaceRunEnd(s, p) ELSE 0

\* The match of the expression that starts at position p: the position after
\* it, or 0 when there is none.  \n? prefers to take the line feed.
MatchEnd(s, p) ==
    IF p <= Len(s) /\ s[p] = LF /\ BeginLine(s, p + 1)
        THEN SpaceRunEnd(s, p + 1)
    ELSE IF BeginLine(s, p)
        THEN SpaceRunEnd(s, p)
    ELSE 0

\* ReplaceAllString(text, ``) from position p on: the leftmost match is cut
\* out, the search goes on after it; a character no match covers is copied.
RECURSIVE ReplaceAllFrom(_, _)
ReplaceAllFrom(s, p) ==
    IF p > Len(s) THEN <<>>
    ELSE LET e == MatchEnd(s, p)
         IN  IF e > p THEN ReplaceAllFrom(s, e)
             ELSE <<s[p]>> \o ReplaceAllFrom(s, p + 1)

Strip(s) == ReplaceAllFrom(s, 1)

(***************************************************************************)
(* Scenario: Strip is applied to a text, and again to its own result.      *)
(***************************************************************************)
IdleStrip  == text = <<>> /\ out = <<>> /\ out2 = <<>>
IdleLast   == x = 0 /\ a = NIL /\ lastRet = NIL
IdleExec   == nodes = <<>> /\ v = NIL /\ execRet = NIL
IdleSparse == name = NIL /\ sparse = <<>> /\ built = NIL
IdleGlob   ==
    /\ pattern = NIL /\ globErr = FALSE /\ filenames = <<>> /\ entry = NIL
    /\ tpl = NIL /\ set = <<>> /\ i = 0 /\ readLog = <<>> /\ parseLog = <<>>
    /\ globRet = NIL

\* The documented example, "  Some list:\n\n  {{range .}}\n    # {{.}}\n
\* {{end}}\n", each word shortened to one character.
Example ==
    <<SP, SP, X, SP, X, LF, LF, SP, SP, X, SP, X, LF,
      SP, SP, SP, SP, X, SP, X, LF, SP, SP, X, LF>>

\* "Some list:{{range .}}# {{.}}{{end}}", shortened likewise.
ExampleStripped == <<X, SP, X, X, SP, X, X, SP, X, X>>

InitStrip ==
    /\ pc = "strip"
    /\ text \in StringsUpTo(Chars, MaxLen) \cup {Example}
    /\ out = <<>> /\ out2 = <<>>
    /\ IdleLast /\ IdleExec /\ IdleSparse /\ IdleGlob

StripText ==
    /\ pc = "strip"
    /\ out' = Strip(text)
    /\ pc' = "stripped"
    /\ UNCHANGED <<text, out2, lastVars, execVars, sparseVars, globVars>>

StripAgain ==
    /\ pc = "stripped"
    /\ out2' = Strip(out)
    /\ pc' = "restripped"
    /\ UNCHANGED <<text, out, lastVars, execVars, sparseVars, globVars>>

NextStrip == StripText \/ StripAgain

SpecStrip == InitStrip /\ [][NextStrip]_vars

(***************************************************************************)
(* Properties of Strip.                                                    *)
(***************************************************************************)
\* Position p of s is cut out when it holds a line feed, when it lies in a
\* run of characters of `after` that immediately follows a line feed, or when
\* it lies in a run of characters of `atStart` that begins the text.
CutOut(s, p, after, atStart) ==
    \/ s[p] = LF
    \/ \E q \in 1..(p - 1) : s[q] = LF /\ \A r \in (q + 1)..p : s[r] \in after
    \/ \A r \in 1..p : s[r] \in atStart

\* The characters of s from position p on that are not cut out, in order.
RECURSIVE KeptFrom(_, _, _, _)
KeptFrom(s, p, after, atStart) ==
    IF p > Len(s) THEN <<>>
    ELSE (IF CutOut(s, p, after, atStart) THEN <<>> ELSE <<s[p]>>)
             \o KeptFrom(s, p + 1, after, atStart)

Reference(s, after, atStart) == KeptFrom(s, 1, after, atStart)

Horizontal == {SP, TAB}
Whitespace == {SP, TAB, CR, LF}

\* C1 as stated: Strip(text) is the text without its line feeds, without the
\* run of horizontal whitespace (spaces, tabs) that follows each line feed,
\* and without the whitespace that begins the text; nothing else is removed.
C1_StripIsHorizontalReference ==
    pc # "strip" => out = Reference(text, Horizontal, Whitespace)

\* C1 amended: the run removed after each line feed is a run of any
\* whitespace of the class \s (spaces, tabs, carriage returns, form feeds,
\* further line feeds), not only of horizontal whitespace.
C1_StripIsWhitespaceReference ==
    pc # "strip" => out = Reference(text, Whitespace, Whitespace)

\* The documented example is stripped to the documented result.
C1_Witness ==
    pc = "stripped" /\ text = Example /\ out = ExampleStripped

\* C2: Strip is idempotent: Strip(Strip(s)) = Strip(s).
C2_StripIdempotent ==
    pc = "restripped" => out2 = out

\* Strip changed the text, and stripping the result changed nothing more.
C2_Witness ==
    pc = "restripped" /\ out # text /\ out # <<>> /\ out2 = out

NoLineFeed(s) == \A p \in 1..Len(s) : s[p] # LF

\* s without the run of whitespace that begins it.
RECURSIVE TrimLeft(_)
TrimLeft(s) ==
    IF s # <<>> /\ Head(s) \in Whitespace THEN TrimLeft(Tail(s)) ELSE s

\* C3 as stated: a text that holds no line feed is returned unchanged, also
\* when it begins with spaces or tabs.
C3_NoLineFeedUnchanged ==
    (pc # "strip" /\ NoLineFeed(text)) => out = text

\* C3 amended: a text that holds no line feed is returned without the run of
\* whitespace that begins it, and otherwise unchanged; it is returned
\* unchanged exactly when it does not begin with whitespace.
C3_NoLineFeedTrimsLeft ==
    (pc # "strip" /\ NoLineFeed(text)) =>
        /\ out = TrimLeft(text)
        /\ (out = text) <=> (text = <<>> \/ text[1] \notin Whitespace)

\* A text without line feed that begins with spaces loses them, and keeps
\* the space inside it.
C3_Witness ==
    pc = "stripped" /\ text = <<SP, SP, X, SP>> /\ out = <<X, SP>>

(***************************************************************************)
(* The template function `last`.                                           *)
(***************************************************************************)
\* The kinds reflect.Value.Len accepts; on any other kind it panics.
HasLen == {"array", "chan", "map", "slice", "string"}

\* Kinds without a length; "invalid" is reflect.ValueOf(nil).
NoLen == {"int", "struct", "invalid"}

Returned(val) == [kind |-> "return", value |-> val]
Panicked      == [kind |-> "panic"]

\* A plausible slip: the index compared with the length itself.
LastOffByOne(idx, val) ==
    IF val.kind \notin HasLen THEN Panicked
    ELSE Returned(idx = val.len)

\* func(x int, a interface{}) bool { return x == reflect.ValueOf(a).Len()-1 }
Last(idx, val) ==
    IF val.kind \notin HasLen THEN Panicked
    ELSE Returned(idx = val.len - 1)

InitLast ==
    /\ pc = "last"
    /\ x \in -1..(MaxSeqLen + 1)
    /\ a \in [kind : HasLen, len : 0..MaxSeqLen]
             \cup [kind : NoLen, len : {0}]
    /\ lastRet = NIL
    /\ IdleStrip /\ IdleExec /\ IdleSparse /\ IdleGlob

CallLast ==
    /\ pc = "last"
    /\ lastRet' = Last(x, a)
    /\ pc' = "lastDone"
    /\ UNCHANGED <<x, a, stripVars, execVars, sparseVars, globVars>>

NextLast == CallLast

SpecLast == InitLast /\ [][NextLast]_vars

\* C4: last returns true iff the index is the length minus one: for a
\* sequence of length N >= 1 it is true at index N-1 and false at every index
\* 0..N-2.
C4_LastIffFinalIndex ==
    (pc = "lastDone" /\ a.kind \in HasLen) =>
        /\ lastRet.kind = "return"
        /\ lastRet.value <=> (x + 1 = a.len)
        /\ (a.len >= 1 /\ x \in 0..(a.len - 2)) => ~lastRet.value
        /\ (a.len >= 1 /\ x = a.len - 1) => lastRet.value

\* last answered true at the final index of a sequence of three.
C4_Witness ==
    /\ pc = "lastDone" /\ a = [kind |-> "slice", len |-> 3] /\ x = 2
    /\ lastRet = Returned(TRUE)

\* C5 as stated: on an empty sequence every call of last ends in an error.
C5_LastOfEmptyErrors ==
    (pc = "lastDone" /\ a.kind \in HasLen /\ a.len = 0) =>
        lastRet.kind = "panic"

\* C5 amended: on an empty sequence no call of last ends in an error: it
\* returns false at every index but -1, so at every index >= 0, and true at
\* index -1.
C5_LastOfEmptyReturns ==
    (pc = "lastDone" /\ a.kind \in HasLen /\ a.len = 0) =>
        /\ lastRet.kind = "return"
        /\ lastRet.value <=> (x = -1)

\* last answered false at index 0 of an empty slice.
C5_Witness ==
    /\ pc = "lastDone" /\ a = [kind |-> "slice", len |-> 0] /\ x = 0
    /\ lastRet = Returned(FALSE)

(***************************************************************************)
(* Execution.  A parsed template is a sequence of nodes: a text node       *)
(* writes its chunk, a field node writes the field of the data object and  *)
(* fails when the data object has none.  text/template writes each node's  *)
(* output to the writer as it goes and stops at the first error.           *)
(***************************************************************************)
TextNode(chunk) == [type |-> "text", chunk |-> chunk]
FieldNode       == [type |-> "field"]
NodeKinds       == {TextNode("a"), TextNode("b"), FieldNode}

NoField == "no field"
Data    == {NoField, "p", "q"}

\* Error values; NoError is Go's nil error.
NoError      == [error |-> NIL]
ExecError(k) == [error |-> "can't evaluate field", node |-> k]

\* tpl.Execute(buf, v) from node k on, with `buf` written so far: the buffer
\* and the error it ends with.
RECURSIVE EngineExecuteFrom(_, _, _, _)
EngineExecuteFrom(ns, data, k, buf) ==
    IF k > Len(ns) THEN [buf |-> buf, err |-> NoError]
    ELSE IF ns[k].type = "text"
        THEN EngineExecuteFrom(ns, data, k + 1, Append(buf, ns[k].chunk))
    ELSE IF data = NoField
        THEN [buf |-> buf, err |-> ExecError(k)]
    ELSE EngineExecuteFrom(ns, data, k + 1, Append(buf, data))

EngineExecute(ns, data) == EngineExecuteFrom(ns, data, 1, <<>>)

\* A plausible slip: the buffer dropped when execution failed.
ExecuteToStringDropsPartial(ns, data) ==
    LET r == EngineExecute(ns, data)
    IN  [kind |-> "return",
         str  |-> IF r.err # NoError THEN <<>> ELSE r.buf,
         err  |-> r.err]

\* func ExecuteToString(tpl *template.Template, v interface{}) (string, error)
ExecuteToString(ns, data) ==
    LET r == EngineExecute(ns, data)
    IN  [kind |-> "return", str |-> r.buf, err |-> r.err]

\* A plausible slip: the error handed back instead of the panic.
TemplateExecuteReturnsError(ns, data) ==
    LET r == EngineExecute(ns, data)
    IN  [kind |-> "return", str |-> r.buf, err |-> r.err]

\* func (t *Template) Execute(v interface{}) (string, error)
TemplateExecute(ns, data) ==
    LET r == EngineExecute(ns, data)
    IN  IF r.err # NoError
            THEN [kind |-> "panic", value |-> r.err]
            ELSE [kind |-> "return", str |-> r.buf, err |-> r.err]

\* t.Template.Execute(buf, v): the embedded *template.Template's own method,
\* called by the user with a buffer of their own.
EmbeddedExecute(ns, data) ==
    LET r == EngineExecute(ns, data)
    IN  [kind |-> "return", str |-> r.buf, err |-> r.err]

InitExec ==
    /\ pc = "exec"
    /\ nodes \in StringsUpTo(NodeKinds, MaxNodes)
    /\ v \in Data
    /\ execRet = NIL
    /\ IdleStrip /\ IdleLast /\ IdleSparse /\ IdleGlob

CallExecuteToString ==
    /\ pc = "exec"
    /\ execRet' = ExecuteToString(nodes, v)
    /\ pc' = "ExecuteToString"
    /\ UNCHANGED <<nodes, v, stripVars, lastVars, sparseVars, globVars>>

CallTemplateExecute ==
    /\ pc = "exec"
    /\ execRet' = TemplateExecute(nodes, v)
    /\ pc' = "Template.Execute"
    /\ UNCHANGED <<nodes, v, stripVars, lastVars, sparseVars, globVars>>

CallEmbeddedExecute ==
    /\ pc = "exec"
    /\ execRet' = EmbeddedExecute(nodes, v)
    /\ pc' = "Template.Template.Execute"
    /\ UNCHANGED <<nodes, v, stripVars, lastVars, sparseVars, globVars>>

NextExec ==
    CallExecuteToString \/ CallTemplateExecute \/ CallEmbeddedExecute

SpecExec == InitExec /\ [][NextExec]_vars

\* The nodes whose execution fails on the data object.
Failing == {k \in 1..Len(nodes) : nodes[k].type = "field" /\ v = NoField}

\* The number of nodes executed before execution stopped.
Executed ==
    IF Failing = {} THEN Len(nodes)
    ELSE (CHOOSE k \in Failing : \A j \in Failing : k <= j) - 1

\* What node k writes.
Written(k) == IF nodes[k].type = "text" THEN nodes[k].chunk ELSE v

\* What the template wrote before execution stopped.
WrittenBeforeStop == [k \in 1..Executed |-> Written(k)]

\* C6: ExecuteToString returns exactly the output written before execution
\* stopped, together with the error: on failure the written prefix and a
\* non-nil error, on success the full output and a nil error.
C6_PartialOutputWithError ==
    pc = "ExecuteToString" =>
        /\ execRet.kind = "return"
        /\ execRet.str = WrittenBeforeStop
        /\ (execRet.err # NoError) <=> (Failing # {})
        /\ Failing = {} => Len(execRet.str) = Len(nodes)

\* Execution failed at the third node after writing two, and both the two
\* chunks written and the error came back.
C6_Witness ==
    /\ pc = "ExecuteToString"
    /\ nodes = <<TextNode("a"), TextNode("b"), FieldNode>> /\ v = NoField
    /\ execRet.str = <<"a", "b">> /\ execRet.err = ExecError(3)

\* C8: Template.Execute never returns a non-nil error: a failed execution
\* ends in a panic and returns no string, a successful one returns the full
\* output and a nil error; the embedded template's own Execute returns the
\* error instead.
C8_ExecuteFailurePanics ==
    /\ pc = "Template.Execute" =>
        /\ execRet.kind = "panic" <=> Failing # {}
        /\ execRet.kind = "panic" =>
               DOMAIN execRet = {"kind", "value"} /\ execRet.value # NoError
        /\ execRet.kind = "return" =>
               execRet.err = NoError /\ execRet.str = WrittenBeforeStop
                   /\ Len(execRet.str) = Len(nodes)
    /\ pc = "Template.Template.Execute" =>
        /\ execRet.kind = "return"
        /\ (execRet.err # NoError) <=> (Failing # {})

\* Template.Execute panicked on a template that fails after writing a chunk.
C8_Witness ==
    /\ pc = "Template.Execute"
    /\ nodes = <<TextNode("a"), FieldNode>> /\ v = NoField
    /\ execRet = [kind |-> "panic", value |-> ExecError(2)]

(***************************************************************************)
(* SparseTemplate.  In a template text, CALL stands for an action that     *)
(* calls `last` and BAD for a malformed action.  text/template's Parse     *)
(* fails on a malformed action and on a function that was not registered.  *)
(***************************************************************************)
CALL == "{{last}}"
BAD  == "{{"

SparseChars == {LF, SP, X, CALL, BAD}
Names       == {"comment", "name", "list"}

ParseError(what) == [error |-> what]

\* template.New(n)
EngineNew(n) == [name |-> n, funcs |-> {}, parsed |-> FALSE, tree |-> <<>>]

\* t.Funcs(fs)
EngineFuncs(t, fs) == [t EXCEPT !.funcs = @ \cup fs]

\* t.Parse(src): the template and the error.
EngineParse(t, src) ==
    IF \E p \in 1..Len(src) : src[p] = BAD
        THEN [tpl |-> NIL, err |-> ParseError("unclosed action")]
    ELSE IF "last" \notin t.funcs /\ \E p \in 1..Len(src) : src[p] = CALL
        THEN [tpl |-> NIL, err |-> ParseError("function not defined")]
    ELSE [tpl |-> [t EXCEPT !.parsed = TRUE, !.tree = src], err |-> NoError]

\* func SparseTemplate(name, text string) *Template; template.Must panics on
\* the error of Parse.
SparseTemplate(n, txt) ==
    LET stripped == Strip(txt)
        funcs    == {"last"}
        r        == EngineParse(EngineFuncs(EngineNew("comment"), funcs),
                                stripped)
    IN  IF r.err # NoError
            THEN [kind |-> "panic", value |-> r.err]
            ELSE [kind |-> "return", tpl |-> r.tpl]

InitSparse ==
    /\ pc = "sparse"
    /\ name \in Names
    /\ sparse \in StringsUpTo(SparseChars, MaxSparse)
    /\ built = NIL
    /\ IdleStrip /\ IdleLast /\ IdleExec /\ IdleGlob

CallSparseTemplate ==
    /\ pc = "sparse"
    /\ built' = SparseTemplate(name, sparse)
    /\ pc' = "built"
    /\ UNCHANGED <<name, sparse, stripVars, lastVars, execVars, globVars>>

NextSparse == CallSparseTemplate

SpecSparse == InitSparse /\ [][NextSparse]_vars

\* C9: SparseTemplate(name, text) builds the template under the name the
\* caller gave: the returned template's name is the name argument, and its
\* parsed source is the stripped text, with `last` registered.
C9_TemplateNamedAsGiven ==
    (pc = "built" /\ built.kind = "return") =>
        /\ built.tpl.name = name
        /\ built.tpl.parsed /\ built.tpl.tree = Strip(sparse)
        /\ "last" \in built.tpl.funcs

(***************************************************************************)
(* ParseGlob.  A path is a number; filepath.Glob returns the paths that    *)
(* match, in increasing order.  A matched file is a record of its path,    *)
(* whether ioutil.ReadFile succeeds on it and whether its stripped content *)
(* parses.  A template set is a set of [name, body] associations; tpl is   *)
(* the name of the template the pointer tpl refers to, or NIL.             *)
(***************************************************************************)
MaxPaths  == 4
BaseNames == <<"a.tpl", "b.tpl">>
Patterns  == {"*/*.tpl", "*.tpl"}

\* filepath.Base(filename): paths in different directories share base names.
Base(path) == BaseNames[((path - 1) % Len(BaseNames)) + 1]

\* The content of the file at a path, as ioutil.ReadFile returns it: an
\* indented line, different for each path and not empty once stripped.
Content(path) == <<LF, TAB>> \o [k \in 1..path |-> X] \o <<LF>>

BadPattern     == [error |-> "syntax error in pattern"]
NoMatch(pat)   == [error |-> "template: pattern matches no files", pattern |-> pat]
ReadError(path)  == [error |-> "read", path |-> path]
GlobParseError(path) == [error |-> "parse", path |-> path]

\* The sequences of at most n matched files, paths increasing.
RECURSIVE Matches(_)
Matches(n) ==
    IF n = 0 THEN {<<>>}
    ELSE LET shorter == Matches(n - 1)
         IN  shorter \cup
             {Append(fs, [path |-> p, readable |-> r, parses |-> ok]) :
                 fs \in {g \in shorter : Len(g) = n - 1},
                 p \in 1..MaxPaths, r \in BOOLEAN, ok \in BOOLEAN}

Increasing(fs) == \A k \in 1..(Len(fs) - 1) : fs[k].path < fs[k + 1].path

Original == <<"original">>

\* The tpl argument and the set it belongs to when the call begins.
Entries ==
    {[tpl |-> NIL, set |-> {}]}
        \cup {[tpl |-> n, set |-> st] :
                n \in {"a.tpl", "root"},
                st \in {{}, {[name |-> "a.tpl", body |-> Original]}}}

\* current_tpl.Parse(s) succeeded: the template is associated with its name
\* in the set, in place of the one that had the name.
Associate(st, n, body) ==
    {e \in st : e.name # n} \cup {[name |-> n, body |-> body]}

InitGlob ==
    /\ pc = "glob"
    /\ pattern \in Patterns
    /\ globErr \in BOOLEAN
    /\ filenames \in {fs \in Matches(MaxFiles) : Increasing(fs)}
    /\ globErr => filenames = <<>>
    /\ entry \in Entries
    /\ tpl = entry.tpl /\ set = entry.set
    /\ i = 0 /\ readLog = <<>> /\ parseLog = <<>> /\ globRet = NIL
    /\ IdleStrip /\ IdleLast /\ IdleExec /\ IdleSparse

GlobFrame == <<pattern, globErr, filenames, entry>>
Others    == <<stripVars, lastVars, execVars, sparseVars>>

\* Lines 159-165: filepath.Glob and the check for no match.
GlobFiles ==
    /\ pc = "glob"
    /\ IF globErr
          THEN /\ globRet' = [tpl |-> NIL, err |-> BadPattern]
               /\ pc' = "globDone"
               /\ i' = i
       ELSE IF Len(filenames) = 0
          THEN /\ globRet' = [tpl |-> NIL, err |-> NoMatch(pattern)]
               /\ pc' = "globDone"
               /\ i' = i
       ELSE /\ globRet' = globRet
            /\ pc' = "globLoop"
            /\ i' = 1
    /\ UNCHANGED <<GlobFrame, tpl, set, readLog, parseLog, Others>>

\* A plausible slip: a file that cannot be read is skipped.
LoopBodySkipsUnreadable ==
    /\ pc = "globLoop" /\ i <= Len(filenames)
    /\ LET f == filenames[i]
           n == Base(f.path)
       IN  /\ readLog' = Append(readLog, i)
           /\ IF ~f.readable
                 THEN /\ i' = i + 1
                      /\ UNCHANGED <<pc, globRet, tpl, set, parseLog>>
              ELSE IF ~f.parses
                 THEN /\ globRet' = [tpl |-> NIL, err |-> GlobParseError(f.path)]
                      /\ pc' = "globDone"
                      /\ tpl' = IF tpl = NIL THEN n ELSE tpl
                      /\ parseLog' = Append(parseLog, i)
                      /\ UNCHANGED <<i, set>>
              ELSE /\ set' = Associate(set, n, Strip(Content(f.path)))
                   /\ tpl' = IF tpl = NIL THEN n ELSE tpl
                   /\ parseLog' = Append(parseLog, i)
                   /\ i' = i + 1
                   /\ UNCHANGED <<pc, globRet>>
    /\ UNCHANGED <<GlobFrame, Others>>

\* A plausible slip: what was attached is taken back when a file fails.
LoopBodyRollsBack ==
    /\ pc = "globLoop" /\ i <= Len(filenames)
    /\ LET f == filenames[i]
           n == Base(f.path)
       IN  /\ readLog' = Append(readLog, i)
           /\ IF ~f.readable
                 THEN /\ globRet' = [tpl |-> NIL, err |-> ReadError(f.path)]
                      /\ pc' = "globDone"
                      /\ set' = entry.set
                      /\ UNCHANGED <<i, tpl, parseLog>>
              ELSE IF ~f.parses
                 THEN /\ globRet' = [tpl |-> NIL, err |-> GlobParseError(f.path)]
                      /\ pc' = "globDone"
                      /\ tpl' = IF tpl = NIL THEN n ELSE tpl
                      /\ parseLog' = Append(parseLog, i)
                      /\ set' = entry.set
                      /\ i' = i
              ELSE /\ set' = Associate(set, n, Strip(Content(f.path)))
                   /\ tpl' = IF tpl = NIL THEN n ELSE tpl
                   /\ parseLog' = Append(parseLog, i)
                   /\ i' = i + 1
                   /\ UNCHANGED <<pc, globRet>>
    /\ UNCHANGED <<GlobFrame, Others>>

\* Lines 166-186: one pass of the range loop over filenames.
LoopBody ==
    /\ pc = "globLoop" /\ i <= Len(filenames)
    /\ LET f       == filenames[i]
           s       == Strip(Content(f.path))
           n       == Base(f.path)
           t       == IF tpl = NIL THEN n ELSE tpl
           \* current_tpl is tpl itself or tpl.New(name): named n either way
           current == IF n = t THEN t ELSE n
       IN  /\ readLog' = Append(readLog, i)
           /\ IF ~f.readable
                 THEN /\ globRet' = [tpl |-> NIL, err |-> ReadError(f.path)]
                      /\ pc' = "globDone"
                      /\ UNCHANGED <<i, tpl, set, parseLog>>
              ELSE IF ~f.parses
                 THEN /\ globRet' = [tpl |-> NIL, err |-> GlobParseError(f.path)]
                      /\ pc' = "globDone"
                      /\ tpl' = t
                      /\ parseLog' = Append(parseLog, i)
                      /\ UNCHANGED <<i, set>>
              ELSE /\ set' = Associate(set, current, s)
                   /\ tpl' = t
                   /\ parseLog' = Append(parseLog, i)
                   /\ i' = i + 1
                   /\ UNCHANGED <<pc, globRet>>
    /\ UNCHANGED <<GlobFrame, Others>>

\* Line 187: the loop is over, return tpl, nil.
GlobReturn ==
    /\ pc = "globLoop" /\ i > Len(filenames)
    /\ globRet' = [tpl |-> tpl, err |-> NoError]
    /\ pc' = "globDone"
    /\ UNCHANGED <<GlobFrame, tpl, set, i, readLog, parseLog, Others>>

NextGlob == GlobFiles \/ LoopBody \/ GlobReturn

SpecGlob == InitGlob /\ [][NextGlob]_vars

(***************************************************************************)
(* Properties of ParseGlob.                                                *)
(***************************************************************************)
\* The matched files that cannot be read or do not parse.
Bad == {k \in 1..Len(filenames) :
            ~filenames[k].readable \/ ~filenames[k].parses}

\* The first of them in glob order, 0 when there is none.
FirstBad ==
    IF Bad = {} THEN 0 ELSE CHOOSE k \in Bad : \A j \in Bad : k <= j

UpTo(n) == [k \in 1..n |-> k]

\* C7: ParseGlob returns nil and an error when the pattern matches no file
\* (the error names the pattern), a file cannot be read or a file does not
\* parse; files are processed in glob order, the first failure is the error
\* returned and no later file is read or parsed; a non-nil set is returned
\* only when every matched file was read and parsed.
C7_FirstFailureAborts ==
    pc = "globDone" =>
        /\ (~globErr /\ Len(filenames) = 0) =>
               /\ globRet.tpl = NIL
               /\ globRet.err = NoMatch(pattern)
               /\ globRet.err.pattern = pattern
        /\ FirstBad # 0 =>
               LET f == filenames[FirstBad]
               IN  /\ globRet.tpl = NIL
                   /\ globRet.err = IF ~f.readable THEN ReadError(f.path)
                                    ELSE GlobParseError(f.path)
                   /\ readLog = UpTo(FirstBad)
                   /\ parseLog = UpTo(IF f.readable THEN FirstBad
                                      ELSE FirstBad - 1)
        /\ globRet.tpl = NIL => globRet.err # NoError
        /\ globRet.tpl # NIL =>
               /\ ~globErr /\ Len(filenames) > 0 /\ Bad = {}
               /\ globRet.err = NoError
               /\ readLog = UpTo(Len(filenames))
               /\ parseLog = UpTo(Len(filenames))

\* Three files matched, the second cannot be read: its error came back with
\* nil, and the third file was neither read nor parsed.
C7_Witness ==
    /\ pc = "globDone" /\ Len(filenames) = 3 /\ FirstBad = 2
    /\ ~filenames[2].readable /\ ~filenames[3].parses
    /\ globRet = [tpl |-> NIL, err |-> ReadError(filenames[2].path)]
    /\ readLog = <<1, 2>> /\ parseLog = <<1>>

\* The files before the first failing one (all of them when none fails).
ParsedBefore ==
    1..((IF FirstBad = 0 THEN Len(filenames) + 1 ELSE FirstBad) - 1)

\* The file that gave a name its body: the last parsed file with the name.
LastWithName(n) ==
    CHOOSE k \in ParsedBefore :
        /\ Base(filenames[k].path) = n
        /\ \A j \in ParsedBefore : Base(filenames[j].path) = n => j <= k

====
